---- MODULE Spec2Model ----
(***************************************************************************)
(* The blog schema of src/src/schema.js: the three collections of the data *)
(* store (PostsList, UsersMap, CommentsList), the resolvers of the         *)
(* BlogSchema query type, of the BlogMutations type and of the Post type.  *)
(*                                                                         *)
(* JavaScript values are modelled as follows.  A string is a sequence of   *)
(* one-character strings, so that toLowerCase works on its characters.     *)
(* undefined, numbers that may be undefined or NaN, and objects are        *)
(* records with a kind field.  An argument the query leaves out is         *)
(* undefined.                                                              *)
(***************************************************************************)
EXTENDS Integers, Sequences, FiniteSets, TLC

VARIABLES
  PostsList,      \* the array imported from ./data/posts, mutated in place
  UsersMap,       \* own properties of the object imported from ./data/users
  CommentsList,   \* the array imported from ./data/comments
  now,            \* the clock read by new Date()
  ret,            \* the last resolver call: its name, arguments and outcome
  inserted,       \* history: the posts in the order they entered PostsList
  nInit           \* history: the number of posts the data file supplied

vars == <<PostsList, UsersMap, CommentsList, now, ret, inserted, nInit>>

-----------------------------------------------------------------------------
(* Bounds of the model.                                                    *)

MaxInitPosts == 2      \* posts supplied by the data file
MaxPosts     == 3      \* posts in PostsList, created ones included
MaxComments  == 3      \* comments supplied by the data file

-----------------------------------------------------------------------------
(* JavaScript values.                                                      *)

Undefined == [kind |-> "undefined"]
NaN       == [kind |-> "NaN"]
Number(n) == [kind |-> "number", v |-> n]

\* The value of a property that may not be there.
NoCategory == "undefined"

\* ToBoolean for the values a resolver tests: undefined is falsy, an object
\* or a function is truthy.
Truthy(v) == v # Undefined

\* ToBoolean for a string-valued argument: undefined and "" are falsy.
TruthyString(s) == s # NoCategory /\ s # ""

\* limit >= 0, where limit is a number or undefined: ToNumber(undefined) is
\* NaN and every comparison with NaN is false.
GreaterOrEqual(v, n) == v.kind = "number" /\ v.v >= n

UpperChars == <<"A", "B", "L", "O">>
LowerChars == <<"a", "b", "l", "o">>

toLowerChar(c) ==
  IF \E i \in DOMAIN UpperChars : UpperChars[i] = c
  THEN LowerChars[CHOOSE i \in DOMAIN UpperChars : UpperChars[i] = c]
  ELSE c

\* String.prototype.toLowerCase
toLowerCase(s) == [i \in DOMAIN s |-> toLowerChar(s[i])]

\* The strings the model passes as usernames.
al          == <<"a", "l">>
AL          == <<"A", "L">>
bo          == <<"b", "o">>
constructor == <<"c", "o", "n", "s", "t", "r", "u", "c", "t", "o", "r">>
dunderProto == <<"_", "_", "p", "r", "o", "t", "o", "_", "_">>

Usernames == {AL, bo, constructor}

\* The properties an ordinary object inherits from Object.prototype whose
\* names toLowerCase can produce.
ObjectPrototype ==
  [k \in {constructor, dunderProto} |->
     IF k = constructor THEN [kind |-> "function", name |-> "Object"]
                        ELSE [kind |-> "object"]]

\* obj[key] on the users object: an own property, else an inherited one,
\* else undefined.
Get(obj, key) ==
  IF key \in DOMAIN obj THEN obj[key]
  ELSE IF key \in DOMAIN ObjectPrototype THEN ObjectPrototype[key]
  ELSE Undefined

\* value.id, where value is a user record or some other object.
IdOf(value) == IF "id" \in DOMAIN value THEN Number(value.id) ELSE Undefined

\* The enum Category: the values of its four members.
Category == {"meteor", "product", "user-story", "other"}

-----------------------------------------------------------------------------
(* Sequences.                                                              *)

\* _.filter(list, test) is SelectSeq(list, test) of the module Sequences.

\* Array.prototype.slice(0, end) for end >= 0.
Slice0(list, end) == SubSeq(list, 1, IF end < Len(list) THEN end ELSE Len(list))

Range(f) == {f[i] : i \in DOMAIN f}

Permutations1(n) == {p \in [1..n -> 1..n] : \A i, j \in 1..n : p[i] = p[j] => i = j}

-----------------------------------------------------------------------------
(* The date sort of latestPost and recentPosts.                            *)

\* new Date(p.date['$date']).getTime(): the data file's dates are objects
\* {$date: ...}; a Date has no $date property, so its time is NaN.
DollarDateTime(p) ==
  IF "dollarDate" \in DOMAIN p.date THEN Number(p.date.dollarDate) ELSE NaN

\* The comparator (a, b) => bTime - aTime.
Comparator(a, b) ==
  LET aTime == DollarDateTime(a)
      bTime == DollarDateTime(b)
  IN  IF aTime = NaN \/ bTime = NaN THEN NaN ELSE Number(bTime.v - aTime.v)

\* SortCompare: a NaN from the comparator counts as +0.
SortCompare(a, b) ==
  LET v == Comparator(a, b) IN IF v = NaN THEN 0 ELSE v.v

\* The comparisons the sort can make, by position.
CompareTable(list) ==
  [i \in DOMAIN list, j \in DOMAIN list |-> SortCompare(list[i], list[j])]

\* The comparator is a consistent comparison function for the elements when
\* "compares equal" is transitive and "less" is transitive and respects it.
ConsistentComparator(list) ==
  LET cmp == CompareTable(list)
  IN  \A a, b, c \in DOMAIN list :
        /\ (cmp[a, b] = 0 /\ cmp[b, c] = 0) => cmp[a, c] = 0
        /\ (cmp[a, b] < 0 /\ cmp[b, c] < 0) => cmp[a, c] < 0
        /\ (cmp[a, b] = 0 /\ cmp[b, c] < 0) => cmp[a, c] < 0
        /\ (cmp[a, b] < 0 /\ cmp[b, c] = 0) => cmp[a, c] < 0

\* Array.prototype.sort(comparator): the results the engine may leave in the
\* array.  With a consistent comparator the array ends up ordered by it,
\* elements that compare equal keeping their order (V8 sorts an array this
\* short by insertion, stably); otherwise the order is implementation-defined,
\* and in every case a permutation.
SortOutcomes(list) ==
  LET n == Len(list)
      cmp == CompareTable(list)
      consistent == ConsistentComparator(list)
      Ordered(q) ==
        \A i, j \in 1..n :
          i < j => \/ cmp[q[i], q[j]] < 0
                   \/ cmp[q[i], q[j]] = 0 /\ q[i] < q[j]
  IN  {[i \in 1..n |-> list[q[i]]] :
         q \in {q \in Permutations1(n) : consistent => Ordered(q)}}

-----------------------------------------------------------------------------
(* The data store as the data files supply it.                             *)

InitCategories == {"meteor", "other"}

\* A post of ./data/posts.  Its date is an object {$date: ...}.
DataPost(id, category, t) ==
  [id |-> id, userId |-> Number(1), category |-> category,
   date |-> [dollarDate |-> t]]

\* A user of ./data/users, stored under its lower-cased username.
DataUser(id, username) == [id |-> id, username |-> username]

\* A comment of ./data/comments.
DataComment(id, postId) == [id |-> id, postId |-> postId]

DataPostLists(ids, categories, dates) ==
  UNION {{[i \in 1..n |-> DataPost(id[i], c[i], t[i])] :
            id \in {f \in [1..n -> ids] : \A i, j \in 1..n : f[i] = f[j] => i = j},
            c \in [1..n -> categories], t \in [1..n -> dates]} :
         n \in 0..MaxInitPosts}

DataUserMaps(ids) ==
  UNION {{[k \in K |-> DataUser(id[k], k)] :
            id \in {f \in [K -> ids] : \A j, k \in K : f[j] = f[k] => j = k}} :
         K \in SUBSET {al, bo}}

DataCommentLists ==
  UNION {{[i \in 1..n |-> DataComment(i, pid[i])] : pid \in [1..n -> 1..MaxInitPosts]} :
         n \in 0..MaxComments}

\* The ids of a collection are 1..n for its n records.
Dense(records) == {r.id : r \in Range(records)} = 1..Cardinality(DOMAIN records)

NoCall == [op |-> "none", arg |-> <<>>, err |-> FALSE, out |-> Undefined]

InitStore(postLists, userMaps, commentLists) ==
  /\ PostsList \in postLists
  /\ UsersMap \in userMaps
  /\ CommentsList \in commentLists
  /\ now = MaxInitPosts + 1
  /\ ret = NoCall
  /\ inserted = PostsList
  /\ nInit = Len(PostsList)

\* The data files number their posts 1..n in file order and their users
\* 1..n; the posts' categories and dates vary.
Init ==
  /\ InitStore(DataPostLists(1..MaxInitPosts, InitCategories, 1..MaxInitPosts),
               DataUserMaps(1..MaxInitPosts),
               {<<DataComment(1, 1)>>})
  /\ \A i \in DOMAIN PostsList : PostsList[i].id = i
  /\ Dense(UsersMap)

\* The data files give their posts and their users distinct ids, no more.
InitAnyIds ==
  InitStore(DataPostLists(1..MaxPosts, {"other"}, {1}),
            DataUserMaps(1..MaxPosts),
            {<<DataComment(1, 1)>>})

\* The data files' comments vary.
InitComments ==
  /\ InitStore(DataPostLists(1..MaxInitPosts, {"other"}, {1}),
               {[k \in {al} |-> DataUser(1, al)]},
               DataCommentLists)
  /\ \A i \in DOMAIN PostsList : PostsList[i].id = i

Returned(op, arg, out) == [op |-> op, arg |-> arg, err |-> FALSE, out |-> out]
Thrown(op, arg)        == [op |-> op, arg |-> arg, err |-> TRUE, out |-> Undefined]

\* list[0]
First(list) == IF Len(list) = 0 THEN Undefined ELSE list[1]

-----------------------------------------------------------------------------
(* The resolvers of the Post type.                                         *)

\* Post.comments with the test limit > 0 in place of limit >= 0.
Post_comments_PositiveLimit(p, limit) ==
  LET cList == SelectSeq(CommentsList, LAMBDA comment : p.id = comment.postId)
  IN  IF GreaterOrEqual(limit, 1) THEN Slice0(cList, limit.v) ELSE cList

\* Post.comments: the comments of the post, the first limit of them when
\* limit >= 0.
Post_comments(p, limit) ==
  LET cList == SelectSeq(CommentsList, LAMBDA comment : p.id = comment.postId)
  IN  IF GreaterOrEqual(limit, 0) THEN Slice0(cList, limit.v) ELSE cList

\* Post.author: the users whose id is the post's userId; the resolver takes
\* the first of them in the property order of UsersMap.
Post_author(p) == {u \in Range(UsersMap) : p.userId = Number(u.id)}

comments(p, limit) ==
  /\ ret = NoCall
  /\ ret' = Returned("comments", [post |-> p, limit |-> limit], Post_comments(p, limit))
  /\ UNCHANGED <<PostsList, UsersMap, CommentsList, now, inserted, nInit>>

author(p) ==
  /\ ret = NoCall
  /\ \/ /\ Post_author(p) = {}
        /\ ret' = Returned("author", [post |-> p], Undefined)
     \/ \E u \in Post_author(p) : ret' = Returned("author", [post |-> p], u)
  /\ UNCHANGED <<PostsList, UsersMap, CommentsList, now, inserted, nInit>>

\* Post.timestamp: post.date.getTime() is a TypeError on the data file's
\* {$date: ...} objects, which have no getTime.
timestamp(p) ==
  /\ ret = NoCall
  /\ IF "time" \in DOMAIN p.date
       THEN ret' = Returned("timestamp", [post |-> p], Number(p.date.time))
       ELSE ret' = Thrown("timestamp", [post |-> p])
  /\ UNCHANGED <<PostsList, UsersMap, CommentsList, now, inserted, nInit>>

-----------------------------------------------------------------------------
(* The resolvers of the query type.                                        *)

Query_posts(category) ==
  IF TruthyString(category)
  THEN SelectSeq(PostsList, LAMBDA p : p.category = category)
  ELSE PostsList

Query_user(username) == Get(UsersMap, toLowerCase(username))

Query_post(id) == First(SelectSeq(PostsList, LAMBDA p : p.id = id))

posts(category) ==
  /\ ret = NoCall
  /\ ret' = Returned("posts", [category |-> category], Query_posts(category))
  /\ UNCHANGED <<PostsList, UsersMap, CommentsList, now, inserted, nInit>>

\* _.values(UsersMap), as the set of its elements.
users ==
  /\ ret = NoCall
  /\ ret' = Returned("users", <<>>, Range(UsersMap))
  /\ UNCHANGED <<PostsList, UsersMap, CommentsList, now, inserted, nInit>>

user(username) ==
  /\ ret = NoCall
  /\ ret' = Returned("user", [username |-> username], Query_user(username))
  /\ UNCHANGED <<PostsList, UsersMap, CommentsList, now, inserted, nInit>>

post(id) ==
  /\ ret = NoCall
  /\ ret' = Returned("post", [id |-> id], Query_post(id))
  /\ UNCHANGED <<PostsList, UsersMap, CommentsList, now, inserted, nInit>>

\* PostsList.sort(...) sorts the shared array in place.
latestPost ==
  /\ ret = NoCall
  /\ \E sorted \in SortOutcomes(PostsList) :
       /\ PostsList' = sorted
       /\ ret' = Returned("latestPost", <<>>, First(sorted))
  /\ UNCHANGED <<UsersMap, CommentsList, now, inserted, nInit>>

\* recentPosts with splice(0, count) in place of slice(0, count): the posts
\* returned are cut out of the array.
recentPosts_Splice(count) ==
  /\ ret = NoCall
  /\ \E sorted \in SortOutcomes(PostsList) :
       /\ PostsList' = SubSeq(sorted, Len(Slice0(sorted, count)) + 1, Len(sorted))
       /\ ret' = Returned("recentPosts", [count |-> count], Slice0(sorted, count))
  /\ UNCHANGED <<UsersMap, CommentsList, now, inserted, nInit>>

recentPosts(count) ==
  /\ ret = NoCall
  /\ \E sorted \in SortOutcomes(PostsList) :
       /\ PostsList' = sorted
       /\ ret' = Returned("recentPosts", [count |-> count], Slice0(sorted, count))
  /\ UNCHANGED <<UsersMap, CommentsList, now, inserted, nInit>>

-----------------------------------------------------------------------------
(* The resolvers of the mutation type.                                     *)

\* NewPost with id = _.size(PostsList), the + 1 left out.
NewPost_SizeAsId(author_, category, usr) ==
  [author |-> author_, category |-> category, userId |-> IdOf(usr),
   id |-> Len(PostsList), date |-> [kind |-> "Date", time |-> now]]

\* The args object of createPost once the resolver has completed it.
NewPost(author_, category, usr) ==
  [author |-> author_, category |-> category, userId |-> IdOf(usr),
   id |-> Len(PostsList) + 1, date |-> [kind |-> "Date", time |-> now]]

createPost(author_, category) ==
  /\ ret = NoCall
  /\ LET usr == Get(UsersMap, toLowerCase(author_))
         arg == [author |-> author_, category |-> category]
     IN  IF ~Truthy(usr)
         THEN /\ ret' = Thrown("createPost", arg)
              /\ UNCHANGED <<PostsList, UsersMap, CommentsList, now, inserted, nInit>>
         ELSE /\ Len(PostsList) < MaxPosts
              /\ PostsList' = Append(PostsList, NewPost(author_, category, usr))
              /\ inserted' = Append(inserted, NewPost(author_, category, usr))
              /\ now' = now + 1
              /\ ret' = Returned("createPost", arg, NewPost(author_, category, usr))
              /\ UNCHANGED <<UsersMap, CommentsList, nInit>>

\* NewUser with id = _.size(_.values(UsersMap)), the + 1 left out.
NewUser_SizeAsId(username) == [username |-> username, id |-> Cardinality(DOMAIN UsersMap)]

\* The args object of createUser once the resolver has completed it.
NewUser(username) == [username |-> username, id |-> Cardinality(DOMAIN UsersMap) + 1]

\* createUser testing UsersMap[user.username], the toLowerCase left out.
createUser_RawKeyTest(username) ==
  /\ ret = NoCall
  /\ LET arg == [username |-> username]
     IN  IF Truthy(Get(UsersMap, username))
         THEN /\ ret' = Thrown("createUser", arg)
              /\ UNCHANGED <<PostsList, UsersMap, CommentsList, now, inserted, nInit>>
         ELSE /\ UsersMap' = [k \in DOMAIN UsersMap \cup {toLowerCase(username)} |->
                                IF k = toLowerCase(username) THEN NewUser(username)
                                                             ELSE UsersMap[k]]
              /\ ret' = Returned("createUser", arg, NewUser(username))
              /\ UNCHANGED <<PostsList, CommentsList, now, inserted, nInit>>

createUser(username) ==
  /\ ret = NoCall
  /\ LET arg == [username |-> username]
     IN  IF Truthy(Get(UsersMap, toLowerCase(username)))
         THEN /\ ret' = Thrown("createUser", arg)
              /\ UNCHANGED <<PostsList, UsersMap, CommentsList, now, inserted, nInit>>
         ELSE /\ UsersMap' = [k \in DOMAIN UsersMap \cup {toLowerCase(username)} |->
                                IF k = toLowerCase(username) THEN NewUser(username)
                                                             ELSE UsersMap[k]]
              /\ ret' = Returned("createUser", arg, NewUser(username))
              /\ UNCHANGED <<PostsList, CommentsList, now, inserted, nInit>>

-----------------------------------------------------------------------------
(* The calls the execution frontend can make.                              *)

CategoryArgs == Category \cup {NoCategory}
NewCategories == {"meteor", NoCategory}
LimitArgs == {Number(n) : n \in -1..MaxComments} \cup {Undefined}
UsernameArgs == Usernames \cup {al, <<"B", "O">>}

\* One resolver runs at a time (ret = NoCall in each of them); its result goes
\* out with the response, and the next call can come.
respond ==
  /\ ret # NoCall
  /\ ret' = NoCall
  /\ UNCHANGED <<PostsList, UsersMap, CommentsList, now, inserted, nInit>>

Next ==
  \/ \E category \in CategoryArgs : posts(category)
  \/ users
  \/ \E username \in UsernameArgs : user(username)
  \/ \E id \in 0..(MaxPosts + 1) : post(id)
  \/ latestPost
  \/ \E count \in 0..MaxPosts : recentPosts(count)
  \/ \E username \in Usernames, category \in NewCategories : createPost(username, category)
  \/ \E username \in Usernames : createUser(username)
  \/ \E p \in Range(PostsList), limit \in LimitArgs : comments(p, limit)
  \/ \E p \in Range(PostsList) : author(p)
  \/ \E p \in Range(PostsList) : timestamp(p)
  \/ respond

Spec == Init /\ [][Next]_vars

SpecAnyIds == InitAnyIds /\ [][Next]_vars

SpecComments == InitComments /\ [][Next]_vars

-----------------------------------------------------------------------------
(* Notions the properties below are stated with.                           *)

\* The posts createPost has added, in call order.
created == SubSeq(inserted, nInit + 1, Len(inserted))

\* The users whose username, lower-cased, is that of the string.
UsersNamed(username) ==
  {u \in Range(UsersMap) : toLowerCase(u.username) = toLowerCase(username)}

\* The time a post's date stands for, whichever shape the date has.
TimeOf(p) == IF "dollarDate" \in DOMAIN p.date THEN p.date.dollarDate ELSE p.date.time

\* list2 holds the elements of list1 in some order.
IsPermutation(list1, list2) ==
  /\ Len(list1) = Len(list2)
  /\ \E q \in Permutations1(Len(list1)) : \A i \in DOMAIN list1 : list2[i] = list1[q[i]]

\* The positions of the elements of list that satisfy Test, and the elements
\* at those positions in the order of list.
Positions(list, Test(_)) == {i \in DOMAIN list : Test(list[i])}

Selected(list, positions) ==
  [k \in 1..Cardinality(positions) |->
     list[CHOOSE i \in positions : Cardinality({j \in positions : j <= i}) = k]]

Min(a, b) == IF a < b THEN a ELSE b

\* The upper-cased form of a string.
toUpperChar(c) ==
  IF \E i \in DOMAIN LowerChars : LowerChars[i] = c
  THEN UpperChars[CHOOSE i \in DOMAIN LowerChars : LowerChars[i] = c]
  ELSE c

toUpperCase(s) == [i \in DOMAIN s |-> toUpperChar(s[i])]

\* No two records of the collection have the same id.
IdsDistinct(records) ==
  \A i, j \in DOMAIN records : records[i].id = records[j].id => i = j

\* The ids are distinct and none is greater than the number of records.
IdsBounded(records) ==
  /\ IdsDistinct(records)
  /\ \A i \in DOMAIN records : records[i].id <= Cardinality(DOMAIN records)

\* The comments of a post in the order of Comments, cut to the first limit of
\* them when a limit >= 0 is given.
CommentsExpected(p, limit) ==
  LET all == Selected(CommentsList,
                      Positions(CommentsList, LAMBDA c : c.postId = p.id))
  IN  IF limit # Undefined /\ limit.v >= 0
      THEN [k \in 1..Min(limit.v, Len(all)) |-> all[k]]
      ELSE all

-----------------------------------------------------------------------------
(* Properties of the mutations.                                            *)

\* C1: a createUser call whose username, lower-cased, is the lower-cased
\* username of an existing user throws, and leaves Users, Posts and Comments
\* as they were.
C1_CreateUserConflict ==
  [][(ret'.op = "createUser" /\ UsersNamed(ret'.arg.username) # {})
       => /\ ret'.err
          /\ UsersMap' = UsersMap
          /\ PostsList' = PostsList
          /\ CommentsList' = CommentsList]_vars

\* A createUser call has thrown on a username that differs in case from the
\* existing user's.
C1_Witness ==
  /\ ret.op = "createUser"
  /\ ret.err
  /\ \E u \in UsersNamed(ret.arg.username) : u.username # ret.arg.username

\* C2: a createPost call whose author, lower-cased, is the lower-cased
\* username of no existing user throws, and leaves Posts as it was.
C2_CreatePostUnknownAuthor ==
  [][(ret'.op = "createPost" /\ UsersNamed(ret'.arg.author) = {})
       => /\ ret'.err
          /\ PostsList' = PostsList]_vars

\* C3: from an empty Posts, the k-th successful createPost call returns a
\* post with id k, and the userId of each post created is the id of the user
\* whose lower-cased username is the lower-cased author.
C3_SequentialIds ==
  nInit = 0 =>
    /\ \A k \in DOMAIN created :
         /\ created[k].id = k
         /\ \E u \in UsersNamed(created[k].author) : created[k].userId = Number(u.id)
    /\ (ret.op = "createPost" /\ ~ret.err) => ret.out = created[Len(created)]

\* C4: the post a successful createPost call returns is the record appended
\* to Posts, and post(id) with its id returns that record, whatever calls
\* came in between.
C4_CreatedPostFound ==
  /\ (ret.op = "createPost" /\ ~ret.err) =>
       /\ Len(PostsList) > 0
       /\ PostsList[Len(PostsList)] = ret.out
       /\ created[Len(created)] = ret.out
  /\ \A k \in DOMAIN created :
       /\ Query_post(created[k].id) = created[k]
       /\ (ret.op = "post" /\ ret.arg.id = created[k].id) => ret.out = created[k]

\* post(id) has returned a created post after a sort has moved the posts.
C4_Witness ==
  /\ ret.op = "post"
  /\ \E k \in DOMAIN created : ret.out = created[k]
  /\ PostsList # inserted
  /\ Len(PostsList) = MaxPosts

-----------------------------------------------------------------------------
(* Properties of the queries.                                              *)

\* C5: posts(C) returns the posts of category C, and posts() all the posts,
\* in insertion order, also after latestPost or recentPosts.
C5_PostsInInsertionOrder ==
  ret.op = "posts" =>
    ret.out = IF ret.arg.category \in Category
              THEN Selected(inserted,
                            Positions(inserted, LAMBDA p : p.category = ret.arg.category))
              ELSE inserted

\* C6: recentPosts(count) returns min(count, number of posts) posts, those
\* with the most recent dates, the most recent first, created posts included.
C6_RecentPostsByDate ==
  ret.op = "recentPosts" =>
    /\ Len(ret.out) = Min(ret.arg.count, Len(PostsList))
    /\ \A i, j \in DOMAIN ret.out : i < j => TimeOf(ret.out[i]) >= TimeOf(ret.out[j])
    /\ \A p \in Range(ret.out), q \in Range(PostsList) \ Range(ret.out) :
         TimeOf(p) >= TimeOf(q)

\* C7: user(V) returns the record of the user whose lower-cased username is
\* V lower-cased, the same for V and its upper-cased form, and an absent value
\* when there is no such user.
C7_UserByAnyCase ==
  /\ ret.op = "user" =>
       IF UsersNamed(ret.arg.username) # {}
       THEN ret.out \in UsersNamed(ret.arg.username)
       ELSE ret.out = Undefined
  /\ \A u \in Range(UsersMap) :
       /\ Query_user(u.username) = u
       /\ Query_user(toUpperCase(u.username)) = u

\* C8: Post.comments(limit) returns the comments of the post in the order of
\* Comments, the first limit of them when limit >= 0 is given and all of them
\* otherwise, and leaves Comments as it was.
C8_CommentsOfPost ==
  [][/\ CommentsList' = CommentsList
     /\ ret'.op = "comments" =>
          ret'.out = CommentsExpected(ret'.arg.post, ret'.arg.limit)]_vars

\* Post.comments has cut two comments of the post down to the first.
C8_Witness ==
  /\ ret.op = "comments"
  /\ ret.arg.limit = Number(1)
  /\ Len(CommentsExpected(ret.arg.post, Undefined)) = 2
  /\ ret.out = <<CommentsExpected(ret.arg.post, Undefined)[1]>>

-----------------------------------------------------------------------------
(* Properties of the store.                                                *)

\* C9: from a store whose post ids are distinct and whose user ids are
\* distinct, both stay distinct; a new post's id is the number of posts
\* before it plus one.
C9_IdsStayDistinct ==
  /\ IdsDistinct(PostsList)
  /\ IdsDistinct(UsersMap)
  /\ (ret.op = "createPost" /\ ~ret.err) => ret.out.id = Len(PostsList)
  /\ (ret.op = "createUser" /\ ~ret.err) => ret.out.id = Cardinality(DOMAIN UsersMap)

\* C9 as amended: a collection whose ids are distinct and none greater than
\* its number of records stays so; a new id is the count before plus one.
C9_BoundedIdsStayDistinct ==
  [][/\ IdsBounded(PostsList) => IdsBounded(PostsList')
     /\ IdsBounded(UsersMap) => IdsBounded(UsersMap')
     /\ (ret'.op = "createPost" /\ ~ret'.err) => ret'.out.id = Len(PostsList) + 1
     /\ (ret'.op = "createUser" /\ ~ret'.err) =>
          ret'.out.id = Cardinality(DOMAIN UsersMap) + 1]_vars

\* A user has been created, and a post, in a store with data posts whose ids
\* are bounded.
C9_Witness ==
  /\ IdsBounded(PostsList)
  /\ IdsBounded(UsersMap)
  /\ nInit > 0
  /\ Len(created) > 0
  /\ ret.op = "createUser"
  /\ ~ret.err
  /\ Cardinality(DOMAIN UsersMap) = 2

\* C10: no call removes or replaces a record of Posts, Users or Comments; a
\* successful createPost appends one post, a successful createUser adds one
\* user, latestPost and recentPosts permute Posts, the other calls change
\* nothing.
C10_NothingRemoved ==
  [][/\ CommentsList' = CommentsList
     /\ \A k \in DOMAIN UsersMap : k \in DOMAIN UsersMap' /\ UsersMap'[k] = UsersMap[k]
     /\ Range(PostsList) \subseteq Range(PostsList')
     /\ CASE ret'.op = "createPost" /\ ~ret'.err ->
               /\ PostsList' = Append(PostsList, ret'.out)
               /\ UsersMap' = UsersMap
          [] ret'.op = "createUser" /\ ~ret'.err ->
               /\ Cardinality(DOMAIN UsersMap') = Cardinality(DOMAIN UsersMap) + 1
               /\ ret'.out \in Range(UsersMap')
               /\ PostsList' = PostsList
          [] ret'.op \in {"latestPost", "recentPosts"} ->
               /\ IsPermutation(PostsList, PostsList')
               /\ UsersMap' = UsersMap
          [] OTHER ->
               /\ PostsList' = PostsList
               /\ UsersMap' = UsersMap]_vars

\* recentPosts has moved the posts of a store that holds a created post and
\* a created user.
C10_Witness ==
  /\ ret.op = "recentPosts"
  /\ PostsList # inserted
  /\ Len(created) > 0
  /\ \E u \in Range(UsersMap) : u.username = AL

====
